---- MODULE Spec2Model ----
(***************************************************************************)
(* Frugal/Thrift converter: the frame locator (parse_data), the envelope   *)
(* codec (decode_headers, encode_data), the message codec                  *)
(* (decode_thrift_message, write_thrift_message) and the recursive value   *)
(* codec (write_value ..., CustomResponseMessage._read_...).               *)
(*                                                                         *)
(* Bytes are integers 0..255, byte strings are sequences of them.  Text    *)
(* (str) is a sequence of code points.  A JSON value is a record with a    *)
(* kind field k: null, bool, int, float, str, list, struct (an object      *)
(* with "fields"), map (a plain object), entry (an object with "key"       *)
(* and/or "value"), note and error (what the decoder emits for a bad       *)
(* field or a failed struct).  A Python exception is a result record with  *)
(* ok = FALSE.                                                             *)
(***************************************************************************)
EXTENDS Integers, Sequences, FiniteSets, TLC

VARIABLES
    mode,        \* which entry point runs: "encode", "decode", "struct", "locate"
    pc,          \* "start", then "encoded" / "failed" / "roundtrip" / "done"
    doc,         \* encode: the input document x = [headers, thrift]
    data,        \* decode: the base64-decoded input bytes
    lib,         \* decode: what ThriftMessage.read does at each offset
    wire,        \* encode: the result of encode_data (bytes, or the exception)
    located,     \* decode: the result of parse_data
    thrift_obj,  \* decode: what decode_thrift_message returned
    printed,     \* decode: the documents printed
    raised,      \* an exception reached the caller
    sample,      \* struct: the typed value read back and the bytes after it;
                 \* locate: the marker list passed to parse_data
    rd           \* struct: the result of the read (value and read position)

vars == <<mode, pc, doc, data, lib, wire, located, thrift_obj, printed, raised,
          sample, rd>>

-----------------------------------------------------------------------------
(* Sequences and Python slices *)

Min(a, b) == IF a < b THEN a ELSE b

\* s[a:b] for 0 <= a, 0 <= b: both ends are clamped to len(s)
Slice(s, a, b) ==
    IF Min(a, Len(s)) >= Min(b, Len(s)) THEN <<>>
    ELSE SubSeq(s, Min(a, Len(s)) + 1, Min(b, Len(s)))

\* s[a:]
SliceFrom(s, a) == Slice(s, a, Len(s))

\* does sub occur in s at 0-based offset i
MatchAt(s, sub, i) ==
    /\ i + Len(sub) <= Len(s)
    /\ \A j \in 1..Len(sub) : s[i + j] = sub[j]

\* bytes.find(sub): the smallest offset of an occurrence, or -1
find(s, sub) ==
    LET hits == {i \in 0..Len(s) : MatchAt(s, sub, i)}
    IN  IF hits = {} THEN -1
        ELSE CHOOSE i \in hits : \A j \in hits : i <= j

RECURSIVE BytesLess(_, _)
\* Python's order on bytes objects (lexicographic, a proper prefix first)
BytesLess(a, b) ==
    IF b = <<>> THEN FALSE
    ELSE IF a = <<>> THEN TRUE
    ELSE IF Head(a) # Head(b) THEN Head(a) < Head(b)
    ELSE BytesLess(Tail(a), Tail(b))

-----------------------------------------------------------------------------
(* Python integers that may exceed 31 bits: base-65536 digits [hi, lo] *)

Big(n) == [hi |-> n \div 65536, lo |-> n % 65536]

BigAdd(a, b) ==
    [hi |-> a.hi + b.hi + ((a.lo + b.lo) \div 65536), lo |-> (a.lo + b.lo) % 65536]

BigLt(a, b) == a.hi < b.hi \/ (a.hi = b.hi /\ a.lo < b.lo)

\* min(a, n) for a small n: where a slice bound lands in a buffer of length n
BigClamp(a, n) == IF a.hi > 0 \/ a.lo > n THEN n ELSE a.lo

\* mb[a:b] with a, b Python integers
BigSlice(s, a, b) == Slice(s, BigClamp(a, Len(s)), BigClamp(b, Len(s)))

-----------------------------------------------------------------------------
(* struct.pack / struct.unpack *)

Ok(v) == [ok |-> TRUE, v |-> v]

Err(e) == [ok |-> FALSE, err |-> e]

\* "then": the rest of a computation runs on the result r unless r is an exception
Bind(r, F(_)) == IF ~r.ok THEN r ELSE F(r)

\* a local name x for a value
Let(x, F(_)) == F(x)

\* bytes written one after the other; the first exception wins
Then(a, b) == IF ~a.ok THEN a ELSE IF ~b.ok THEN b ELSE Ok(a.v \o b.v)

\* struct.unpack('>I', b)[0]: needs exactly 4 bytes
unpack_I(b) ==
    IF Len(b) # 4 THEN Err("struct.error")
    ELSE Ok([hi |-> b[1] * 256 + b[2], lo |-> b[3] * 256 + b[4]])

\* struct.unpack('>B', b)[0]: needs exactly 1 byte
unpack_B(b) == IF Len(b) # 1 THEN Err("struct.error") ELSE Ok(b[1])

\* struct.pack('>I', n) for a Python integer n >= 0: 0 <= n < 2^32
pack_I(a) ==
    IF a.hi >= 65536 THEN Err("struct.error")
    ELSE Ok(<<a.hi \div 256, a.hi % 256, a.lo \div 256, a.lo % 256>>)

\* the two's complement big-endian bytes of n on w bytes (w <= 4)
RECURSIVE BE(_, _)
BE(n, w) == IF w = 0 THEN <<>> ELSE BE(n \div 256, w - 1) \o <<n % 256>>

\* struct.pack('!b' / '!h' / '!i', n): range checked
pack_signed(n, w) ==
    IF w = 1 /\ (n < -128 \/ n > 127) THEN Err("struct.error")
    ELSE IF w = 2 /\ (n < -32768 \/ n > 32767) THEN Err("struct.error")
    ELSE Ok(BE(n, w))

\* struct.pack('!q', n) of an n that fits 32 bits: sign-extended to 8 bytes
pack_q(n) ==
    Ok((IF n < 0 THEN <<255, 255, 255, 255>> ELSE <<0, 0, 0, 0>>) \o BE(n, 4))

\* the signed value of w big-endian bytes (w <= 4)
RECURSIVE UVal(_)
UVal(b) == IF b = <<>> THEN 0 ELSE UVal(SubSeq(b, 1, Len(b) - 1)) * 256 + b[Len(b)]

SVal(b) ==
    (IF b[1] >= 128 THEN b[1] - 256 ELSE b[1]) * (2 ^ (8 * (Len(b) - 1)))
        + UVal(Tail(b))

\* struct.pack('!d', float(n)) of an integer-valued double, |n| < 4096
pack_d(n) ==
    IF n = 0 THEN <<0, 0, 0, 0, 0, 0, 0, 0>>
    ELSE LET a    == IF n < 0 THEN -n ELSE n
             e    == CHOOSE k \in 0..11 : 2 ^ k <= a /\ a < 2 ^ (k + 1)
             ex   == e + 1023
             m12  == ((a - 2 ^ e) * 4096) \div (2 ^ e)
             sign == IF n < 0 THEN 128 ELSE 0
         IN  <<sign + (ex \div 16), (ex % 16) * 16 + (m12 \div 256), m12 % 256,
               0, 0, 0, 0, 0>>

\* struct.unpack('!d', b)[0] where b encodes an integer-valued double
unpack_d(b) ==
    IF b = <<0, 0, 0, 0, 0, 0, 0, 0>> THEN 0
    ELSE LET ex  == (b[1] % 128) * 16 + (b[2] \div 16)
             e   == ex - 1023
             m12 == (b[2] % 16) * 256 + b[3]
             a   == 2 ^ e + (m12 * (2 ^ e)) \div 4096
         IN  IF b[1] >= 128 THEN -a ELSE a

-----------------------------------------------------------------------------
(* UTF-8 *)

\* chr(c).encode('utf-8'); a lone surrogate raises UnicodeEncodeError
utf8_char(c) ==
    IF c < 128 THEN Ok(<<c>>)
    ELSE IF c < 2048 THEN Ok(<<192 + (c \div 64), 128 + (c % 64)>>)
    ELSE IF c >= 55296 /\ c <= 57343 THEN Err("UnicodeEncodeError")
    ELSE IF c < 65536
         THEN Ok(<<224 + (c \div 4096), 128 + ((c \div 64) % 64), 128 + (c % 64)>>)
    ELSE Ok(<<240 + (c \div 262144), 128 + ((c \div 4096) % 64),
              128 + ((c \div 64) % 64), 128 + (c % 64)>>)

RECURSIVE utf8_encode(_)
\* s.encode('utf-8')
utf8_encode(s) ==
    IF s = <<>> THEN Ok(<<>>) ELSE Then(utf8_char(Head(s)), utf8_encode(Tail(s)))

IsCont(b, i) == i <= Len(b) /\ b[i] >= 128 /\ b[i] < 192

\* the length of the well-formed UTF-8 sequence that starts b, 0 if none does
utf8_len(b) ==
    IF b[1] < 128 THEN 1
    ELSE IF b[1] >= 194 /\ b[1] <= 223 /\ IsCont(b, 2) THEN 2
    ELSE IF b[1] >= 224 /\ b[1] <= 239 /\ IsCont(b, 2) /\ IsCont(b, 3)
            /\ (b[1] # 224 \/ b[2] >= 160) /\ (b[1] # 237 \/ b[2] < 160) THEN 3
    ELSE IF b[1] >= 240 /\ b[1] <= 244 /\ IsCont(b, 2) /\ IsCont(b, 3) /\ IsCont(b, 4)
            /\ (b[1] # 240 \/ b[2] >= 144) /\ (b[1] # 244 \/ b[2] < 144) THEN 4
    ELSE 0

\* the code point of the n-byte sequence that starts b
utf8_cp(b, n) ==
    CASE n = 1 -> b[1]
      [] n = 2 -> (b[1] - 192) * 64 + (b[2] - 128)
      [] n = 3 -> (b[1] - 224) * 4096 + (b[2] - 128) * 64 + (b[3] - 128)
      [] n = 4 -> (b[1] - 240) * 262144 + (b[2] - 128) * 4096
                      + (b[3] - 128) * 64 + (b[4] - 128)

\* the k-th smallest member of a set of positions
nth(leads, k) == CHOOSE i \in leads : Cardinality({j \in leads : j < i}) = k - 1

\* the well-formed sequence that starts at each position of leads ends where
\* the next one starts, or at the end of b
well_formed(b, leads) ==
    /\ b = <<>> \/ 1 \in leads
    /\ \A i \in leads :
          /\ utf8_len(SubSeq(b, i, Len(b))) > 0
          /\ i + utf8_len(SubSeq(b, i, Len(b))) \in leads \cup {Len(b) + 1}

\* the code points of the sequences that start at the positions of leads
code_points(b, leads) ==
    [k \in 1..Cardinality(leads) |->
        utf8_cp(SubSeq(b, nth(leads, k), Len(b)),
                utf8_len(SubSeq(b, nth(leads, k), Len(b))))]

\* b.decode('utf-8'): the code points, or UnicodeDecodeError.  The sequences
\* start at the bytes that are not continuation bytes.
utf8_decode(b) ==
    Let({i \in 1..Len(b) : ~IsCont(b, i)}, LAMBDA leads :
        IF well_formed(b, leads) THEN Ok(code_points(b, leads))
        ELSE Err("UnicodeDecodeError"))

-----------------------------------------------------------------------------
(* thrift.Thrift.TType, TMessageType and the converter's name tables *)

TType ==
    [STOP |-> 0, BOOL |-> 2, BYTE |-> 3, DOUBLE |-> 4, I16 |-> 6, I32 |-> 8,
     I64 |-> 10, STRING |-> 11, STRUCT |-> 12, MAP |-> 13, SET |-> 14, LIST |-> 15]

FIELD_TYPE_MAP ==
    [bool |-> TType.BOOL, i8 |-> TType.BYTE, i16 |-> TType.I16, i32 |-> TType.I32,
     i64 |-> TType.I64, double |-> TType.DOUBLE, string |-> TType.STRING,
     struct |-> TType.STRUCT, map |-> TType.MAP, set |-> TType.SET,
     list |-> TType.LIST]

\* FIELD_TYPE_MAP.get(name): None is modelled as -1
FIELD_TYPE_MAP_get(name) ==
    IF name \in DOMAIN FIELD_TYPE_MAP THEN FIELD_TYPE_MAP[name] ELSE -1

msg_type_map == [call |-> 1, reply |-> 2, exception |-> 3, oneway |-> 4]

-----------------------------------------------------------------------------
(* JSON values *)

JNull == [k |-> "null"]

JBool(b) == [k |-> "bool", v |-> b]

JInt(n) == [k |-> "int", v |-> n]

JFloat(n) == [k |-> "float", v |-> n]

JStr(s) == [k |-> "str", v |-> s]

JList(items) == [k |-> "list", v |-> items]

\* {"fields": [...]}
JStruct(fields) == [k |-> "struct", fields |-> fields]

\* a plain object: a sequence of [key |-> text, val |-> value]
JMap(pairs) == [k |-> "map", v |-> pairs]

\* an object with "key" and/or "value" (has: which of the two are present)
JEntry(has, key, value) == [k |-> "entry", has |-> has, key |-> key, value |-> value]

\* a field object; "" stands for an absent element_type, key_type, value_type
FieldOf(id, type, value, et, kt, vt) ==
    [field_id |-> id, field_type |-> type, value |-> value,
     element_type |-> et, key_type |-> kt, value_type |-> vt]

Field(id, type, value) == FieldOf(id, type, value, "", "", "")

S(str) ==
    CASE str = "a" -> <<97>>
      [] str = "b" -> <<98>>
      [] str = "ab" -> <<97, 98>>
      [] str = "m" -> <<109>>
      [] str = "" -> <<>>
      [] str = "True" -> <<84, 114, 117, 101>>
      [] str = "False" -> <<70, 97, 108, 115, 101>>
      [] str = "None" -> <<78, 111, 110, 101>>
      [] str = "fields" -> <<102, 105, 101, 108, 100, 115>>
      [] str = "key" -> <<107, 101, 121>>
      [] str = "value" -> <<118, 97, 108, 117, 101>>
      [] str = "user-agent" -> <<117, 115, 101, 114, 45, 97, 103, 101, 110, 116>>
      [] str = "test" -> <<116, 101, 115, 116>>
      [] str = "unknown" -> <<117, 110, 107, 110, 111, 119, 110>>
      [] str = "complex_key_" ->
            <<99, 111, 109, 112, 108, 101, 120, 95, 107, 101, 121, 95>>

-----------------------------------------------------------------------------
(* Python's conversions bool(), int(), float(), str() and iteration *)

\* bool(value), also "not value" and "value or []"
PyBool(j) ==
    CASE j.k = "null" -> FALSE
      [] j.k = "bool" -> j.v
      [] j.k \in {"int", "float"} -> j.v # 0
      [] j.k \in {"str", "list", "map"} -> j.v # <<>>
      [] j.k = "struct" -> TRUE
      [] j.k = "entry" -> j.has # {}

IsDigits(s) == s # <<>> /\ \A i \in 1..Len(s) : s[i] >= 48 /\ s[i] <= 57

RECURSIVE DigitsVal(_)
DigitsVal(s) ==
    IF s = <<>> THEN 0 ELSE DigitsVal(SubSeq(s, 1, Len(s) - 1)) * 10 + (s[Len(s)] - 48)

\* int(value)
PyInt(j) ==
    CASE j.k = "bool" -> Ok(IF j.v THEN 1 ELSE 0)
      [] j.k \in {"int", "float"} -> Ok(j.v)
      [] j.k = "str" ->
            IF IsDigits(j.v) THEN Ok(DigitsVal(j.v))
            ELSE IF j.v # <<>> /\ j.v[1] \in {43, 45} /\ IsDigits(Tail(j.v))
                 THEN Ok(IF j.v[1] = 45 THEN -DigitsVal(Tail(j.v))
                         ELSE DigitsVal(Tail(j.v)))
            ELSE Err("ValueError")
      [] OTHER -> Err("TypeError")

\* float(value); a text is taken to spell a float only as a decimal integer
\* (texts such as "1.5", "1e3", "nan" are not drawn)
PyFloat(j) == PyInt(j)

RECURSIVE Decimal(_)
Decimal(n) ==
    IF n < 0 THEN <<45>> \o Decimal(-n)
    ELSE IF n < 10 THEN <<48 + n>>
    ELSE Decimal(n \div 10) \o <<48 + (n % 10)>>

\* str(value) of a scalar (str() of a list or an object is not modelled: no
\* document carries one where a text is written)
PyStr(j) ==
    CASE j.k = "str" -> j.v
      [] j.k = "bool" -> IF j.v THEN S("True") ELSE S("False")
      [] j.k = "int" -> Decimal(j.v)
      [] j.k = "float" -> Decimal(j.v) \o <<46, 48>>
      [] j.k = "null" -> S("None")

\* isinstance(item, (str, int, float, bool))
IsScalar(j) == j.k \in {"str", "int", "float", "bool"}

\* isinstance(item, int): bool is a subclass of int
IsInt(j) == j.k \in {"int", "bool"}

EntryKeys(j) ==
    (IF "key" \in j.has THEN <<JStr(S("key"))>> ELSE <<>>)
        \o (IF "value" \in j.has THEN <<JStr(S("value"))>> ELSE <<>>)

\* list(value or []): what "for item in items" and len(items) see
Iter(j) ==
    IF ~PyBool(j) THEN Ok(<<>>)
    ELSE CASE j.k = "list" -> Ok(j.v)
           [] j.k = "str" -> Ok([i \in 1..Len(j.v) |-> JStr(<<j.v[i]>>)])
           [] j.k = "map" -> Ok([i \in 1..Len(j.v) |-> JStr(j.v[i].key)])
           [] j.k = "struct" -> Ok(<<JStr(S("fields"))>>)
           [] j.k = "entry" -> Ok(EntryKeys(j))
           [] OTHER -> Err("TypeError")

\* "fields" in value
HasFields(j) ==
    CASE j.k = "struct" -> Ok(TRUE)
      [] j.k = "entry" -> Ok(FALSE)
      [] j.k = "map" -> Ok(\E i \in 1..Len(j.v) : j.v[i].key = S("fields"))
      [] j.k = "str" -> Ok(find(j.v, S("fields")) # -1)
      [] j.k = "list" ->
            Ok(\E i \in 1..Len(j.v) : j.v[i].k = "str" /\ j.v[i].v = S("fields"))
      [] OTHER -> Err("TypeError")

-----------------------------------------------------------------------------
(* TBinaryProtocol writers *)

\* writeByte(t) of a type tag; FIELD_TYPE_MAP.get's None does not pack
writeTag(t) == IF t = -1 THEN Err("struct.error") ELSE pack_signed(t, 1)

writeBool(b) == pack_signed(IF b THEN 1 ELSE 0, 1)

writeI32(n) == pack_signed(n, 4)

writeString(s) == Bind(utf8_encode(s), LAMBDA e : Then(writeI32(Len(e.v)), e))

writeFieldStop == pack_signed(TType.STOP, 1)

writeFieldBegin(type, id) == Then(writeTag(type), pack_signed(id, 2))

writeListBegin(etype, size) == Then(writeTag(etype), writeI32(size))

writeMapBegin(ktype, vtype, size) ==
    Then(writeTag(ktype), Then(writeTag(vtype), writeI32(size)))

\* VERSION_1 | type, the name, the sequence id
writeMessageBegin(name, type, seqid) ==
    Then(Ok(<<128, 1, 0, type>>), Then(writeString(name), writeI32(seqid)))

\* the scalar writes shared by write_value and write_field_value
writeScalar(type, conv) ==
    IF ~conv.ok THEN conv
    ELSE CASE type = TType.BYTE -> pack_signed(conv.v, 1)
           [] type = TType.I16 -> pack_signed(conv.v, 2)
           [] type = TType.I32 -> pack_signed(conv.v, 4)
           [] type = TType.I64 -> pack_q(conv.v)
           [] type = TType.DOUBLE -> Ok(pack_d(conv.v))

-----------------------------------------------------------------------------
(* converter.py: the encoder *)

RECURSIVE write_value(_, _), write_field_value(_, _), write_struct(_),
          write_fields(_), write_items(_, _), write_entries(_, _, _),
          write_field(_), write_map(_, _, _), write_sequence(_, _)

\* the text that writeString receives (None becomes "", a non-text is str()ed)
StringArg(value) ==
    IF value.k = "null" THEN <<>>
    ELSE IF value.k = "str" THEN value.v
    ELSE PyStr(value)

\* write_field_value(protocol, thrift_type, value): a value without a field
write_field_value(thrift_type, value) ==
    CASE thrift_type = TType.BOOL -> writeBool(PyBool(value))
      [] thrift_type \in {TType.BYTE, TType.I16, TType.I32, TType.I64} ->
            writeScalar(thrift_type, PyInt(value))
      [] thrift_type = TType.DOUBLE -> writeScalar(thrift_type, PyFloat(value))
      [] thrift_type = TType.STRING -> writeString(StringArg(value))
      [] thrift_type = TType.STRUCT ->
            Bind(HasFields(value), LAMBDA has :
                IF has.v
                THEN CASE value.k = "struct" -> write_struct(value.fields)
                       [] value.k \in {"str", "list"} -> Err("TypeError")
                ELSE writeFieldStop)
      [] OTHER -> Err("ValueError")

\* for item in items: write_field_value(protocol, element_type, item)
write_items(element_type, items) ==
    IF items = <<>> THEN Ok(<<>>)
    ELSE Then(write_field_value(element_type, Head(items)),
              write_items(element_type, Tail(items)))

\* the entries loop of a map: an entry without both "key" and "value" is passed over
write_entries(key_type, value_type, entries) ==
    IF entries = <<>> THEN Ok(<<>>)
    ELSE Then(IF Head(entries).k = "entry" /\ Head(entries).has = {"key", "value"}
              THEN Then(write_field_value(key_type, Head(entries).key),
                        write_field_value(value_type, Head(entries).value))
              ELSE Ok(<<>>),
              write_entries(key_type, value_type, Tail(entries)))

\* the entries of a map field's value
MapEntries(value) ==
    IF value.k = "null" THEN Ok(<<>>)
    ELSE IF value.k = "map"
         THEN Ok([i \in 1..Len(value.v) |->
                    JEntry({"key", "value"}, JStr(value.v[i].key), value.v[i].val)])
    ELSE Iter(value)

\* field.get(name) or "string"
TypeOrString(name) == FIELD_TYPE_MAP_get(IF name = "" THEN "string" ELSE name)

\* the element type of a list field that names none
InferListType(items) ==
    IF items # <<>> /\ \A i \in 1..Len(items) : IsScalar(items[i])
    THEN IF \A i \in 1..Len(items) : items[i].k = "bool" THEN TType.BOOL
         ELSE IF \A i \in 1..Len(items) : IsInt(items[i]) THEN TType.I32
         ELSE IF \A i \in 1..Len(items) : items[i].k = "float" THEN TType.DOUBLE
         ELSE TType.STRING
    ELSE TType.STRUCT

\* the element type of a set field: never the declared one
InferSetType(items) ==
    IF \A i \in 1..Len(items) : IsScalar(items[i]) THEN TType.STRING
    ELSE TType.STRUCT

\* the element type of a list field: inferred from items, or the declared one
ListElementType(field, items) ==
    IF field.element_type = "" THEN Bind(items, LAMBDA it : Ok(InferListType(it.v)))
    ELSE IF FIELD_TYPE_MAP_get(field.element_type) = -1 THEN Err("ValueError")
    ELSE Ok(FIELD_TYPE_MAP_get(field.element_type))

\* the map branch of write_value: the header, then the entries
write_map(key_type, value_type, entries) ==
    Bind(entries, LAMBDA e :
        Then(writeMapBegin(key_type, value_type, Len(e.v)),
             write_entries(key_type, value_type, e.v)))

\* the set and list branches of write_value: the header, then the items
write_sequence(element_type, items) ==
    Bind(element_type, LAMBDA t :
        Bind(items, LAMBDA it :
            Then(writeListBegin(t.v, Len(it.v)), write_items(t.v, it.v))))

\* write_value(protocol, thrift_type, field): the value of a field object
write_value(thrift_type, field) ==
    CASE thrift_type = TType.BOOL ->
            writeBool(IF field.value.k = "null" THEN FALSE ELSE PyBool(field.value))
      [] thrift_type \in {TType.BYTE, TType.I16, TType.I32, TType.I64} ->
            writeScalar(thrift_type,
                        IF field.value.k = "null" THEN Ok(0) ELSE PyInt(field.value))
      [] thrift_type = TType.DOUBLE ->
            writeScalar(thrift_type,
                        IF field.value.k = "null" THEN Ok(0) ELSE PyFloat(field.value))
      [] thrift_type = TType.STRING -> writeString(StringArg(field.value))
      [] thrift_type = TType.STRUCT ->
            IF ~PyBool(field.value) THEN writeFieldStop
            ELSE IF field.value.k = "struct" THEN write_struct(field.value.fields)
            ELSE IF field.value.k \in {"map", "entry"} THEN write_struct(<<>>)
            ELSE Err("AttributeError")
      [] thrift_type = TType.MAP ->
            write_map(TypeOrString(field.key_type), TypeOrString(field.value_type),
                      MapEntries(field.value))
      [] thrift_type = TType.SET ->
            write_sequence(Bind(Iter(field.value), LAMBDA it : Ok(InferSetType(it.v))),
                           Iter(field.value))
      [] thrift_type = TType.LIST ->
            write_sequence(ListElementType(field, Iter(field.value)), Iter(field.value))
      [] OTHER -> Err("ValueError")

\* one turn of the field loop of write_struct
write_field(field) ==
    IF field.field_type \notin DOMAIN FIELD_TYPE_MAP THEN Err("KeyError")
    ELSE Then(writeFieldBegin(FIELD_TYPE_MAP[field.field_type], field.field_id),
              write_value(FIELD_TYPE_MAP[field.field_type], field))

\* the field loop of write_struct
write_fields(fields_json) ==
    IF fields_json = <<>> THEN Ok(<<>>)
    ELSE Then(write_field(Head(fields_json)), write_fields(Tail(fields_json)))

\* write_struct(protocol, fields_json)
write_struct(fields_json) == Then(write_fields(fields_json), writeFieldStop)

\* write_thrift_message(thrift_json), binary protocol (args.compact not set)
write_thrift_message(thrift_json) ==
    IF thrift_json.type \notin DOMAIN msg_type_map THEN Err("KeyError")
    ELSE Then(writeMessageBegin(thrift_json.method, msg_type_map[thrift_json.type],
                                thrift_json.seqid),
              IF PyBool(thrift_json.args) THEN write_struct(thrift_json.args.fields)
              ELSE Ok(<<>>))

RECURSIVE encode_headers(_)
\* the header loop of encode_data: len(i) counts characters, not bytes
encode_headers(headers) ==
    IF headers = <<>> THEN Ok(<<>>)
    ELSE Then(pack_I(Big(Len(Head(headers).key))),
              Then(utf8_encode(Head(headers).key),
                   Then(pack_I(Big(Len(Head(headers).val))),
                        Then(utf8_encode(Head(headers).val),
                             encode_headers(Tail(headers))))))

\* the frame with frame_size counting the 4 bytes of frame_size as well
frame_whole(headers, thrift_message) ==
    Then(pack_I(Big(Len(headers.v) + Len(thrift_message.v) + 9)),
         Then(Ok(<<0>>),
              Then(pack_I(Big(Len(headers.v))), Then(headers, thrift_message))))

\* frame_size, the 0 byte, header_length, the headers, the message
frame(headers, thrift_message) ==
    Then(pack_I(Big(Len(headers.v) + Len(thrift_message.v) + 5)),
         Then(Ok(<<0>>),
              Then(pack_I(Big(Len(headers.v))), Then(headers, thrift_message))))

\* encode_data(filename): x = [headers, thrift]; the bytes before base64
encode_data(x) ==
    Bind(encode_headers(x.headers), LAMBDA headers :
        Bind(write_thrift_message(x.thrift), LAMBDA thrift_message :
            frame(headers, thrift_message)))

-----------------------------------------------------------------------------
(* TBinaryProtocol readers over a TMemoryBuffer: the buffer b and the 0-based *)
(* read position pos; a result carries the value read and the new position  *)

ROk(v, pos) == [ok |-> TRUE, v |-> v, pos |-> pos]

\* trans.readAll(n): EOFError when fewer than n bytes remain
readAll(b, pos, n) ==
    IF pos + n > Len(b) THEN Err("EOFError")
    ELSE ROk(Slice(b, pos, pos + n), pos + n)

\* readByte / readI16 / readI32: w signed big-endian bytes
readInt(b, pos, w) == Bind(readAll(b, pos, w), LAMBDA r : ROk(SVal(r.v), r.pos))

readByte(b, pos) == readInt(b, pos, 1)

readI16(b, pos) == readInt(b, pos, 2)

readI32(b, pos) == readInt(b, pos, 4)

\* readBool: any non-zero byte is True
readBool(b, pos) == Bind(readInt(b, pos, 1), LAMBDA r : ROk(JBool(r.v # 0), r.pos))

\* readI64: an int when the value fits 32 bits, else the raw 8 bytes
readI64(b, pos) ==
    Bind(readAll(b, pos, 8), LAMBDA r :
        IF SubSeq(r.v, 1, 4) = (IF r.v[5] >= 128 THEN <<255, 255, 255, 255>>
                                ELSE <<0, 0, 0, 0>>)
        THEN ROk(JInt(SVal(SubSeq(r.v, 5, 8))), r.pos)
        ELSE ROk([k |-> "bigint", b |-> r.v], r.pos))

\* the exponent field of the 8 bytes of a double
Exponent(b) == (b[1] % 128) * 16 + (b[2] \div 16)

\* readDouble: a float when it is a small integer-valued double, else the raw bits
readDouble(b, pos) ==
    Bind(readAll(b, pos, 8), LAMBDA r :
        IF r.v = <<0, 0, 0, 0, 0, 0, 0, 0>>
           \/ (Exponent(r.v) >= 1023 /\ Exponent(r.v) <= 1034
               /\ pack_d(unpack_d(r.v)) = r.v)
        THEN ROk(JFloat(unpack_d(r.v)), r.pos)
        ELSE ROk([k |-> "floatbits", b |-> r.v], r.pos))

\* the size bytes of a string, UTF-8 decoded
readText(b, pos, size) ==
    Bind(readAll(b, pos, size), LAMBDA r :
        Bind(utf8_decode(r.v), LAMBDA t : ROk(t.v, r.pos)))

\* readString: length, bytes, UTF-8 decoding; a negative length is refused
readString(b, pos) ==
    Bind(readInt(b, pos, 4), LAMBDA size :
        IF size.v < 0 THEN Err("TTransportException")
        ELSE readText(b, size.pos, size.v))

\* readMessageBegin: (name, type, seqid)
readMessageBegin(b, pos) ==
    Bind(readInt(b, pos, 4), LAMBDA sz :
        IF sz.v < 0 /\ (b[pos + 1] # 128 \/ b[pos + 2] # 1)
        THEN Err("TProtocolException")
        ELSE Bind(IF sz.v < 0 THEN readString(b, sz.pos)
                   ELSE readText(b, sz.pos, sz.v), LAMBDA name :
                 Bind(IF sz.v < 0 THEN ROk(b[pos + 4], name.pos)
                       ELSE readInt(b, name.pos, 1), LAMBDA type :
                     Bind(readInt(b, type.pos, 4), LAMBDA seqid :
                         ROk([name |-> name.v, type |-> type.v, seqid |-> seqid.v],
                             seqid.pos)))))

\* readListBegin / readSetBegin: (element type, size); a negative size is refused
readListBegin(b, pos) ==
    Bind(readInt(b, pos, 1), LAMBDA etype :
        Bind(readInt(b, etype.pos, 4), LAMBDA size :
            IF size.v < 0 THEN Err("TTransportException")
            ELSE ROk([etype |-> etype.v, size |-> size.v], size.pos)))

\* readMapBegin: (key type, value type, size)
readMapBegin(b, pos) ==
    Bind(readInt(b, pos, 1), LAMBDA ktype :
        Bind(readListBegin(b, ktype.pos), LAMBDA h :
            ROk([ktype |-> ktype.v, vtype |-> h.v.etype, size |-> h.v.size], h.pos)))

\* the types of the values after a container header: one per list or set
\* element, key and value per map entry
SkipPlan(ttype, h) ==
    IF ttype = TType.MAP THEN [types |-> <<h.ktype, h.vtype>>, n |-> 2 * h.size]
    ELSE [types |-> <<h.etype>>, n |-> h.size]

RECURSIVE skip(_, _, _), skip_fields(_, _), skip_n(_, _, _, _)

\* TProtocolBase.skip(ttype): an unknown type tag raises
skip(b, pos, ttype) ==
    CASE ttype \in {TType.BOOL, TType.BYTE, TType.I16, TType.I32, TType.I64,
                    TType.DOUBLE} ->
            readAll(b, pos, CASE ttype \in {TType.BOOL, TType.BYTE} -> 1
                              [] ttype = TType.I16 -> 2
                              [] ttype = TType.I32 -> 4
                              [] OTHER -> 8)
      [] ttype = TType.STRING -> readString(b, pos)
      [] ttype = TType.STRUCT -> skip_fields(b, pos)
      [] ttype \in {TType.MAP, TType.SET, TType.LIST} ->
            Bind(IF ttype = TType.MAP THEN readMapBegin(b, pos)
                  ELSE readListBegin(b, pos), LAMBDA h :
                skip_n(b, h.pos, SkipPlan(ttype, h.v).types, SkipPlan(ttype, h.v).n))
      [] OTHER -> Err("TProtocolException")

\* skip of a struct: fields until STOP
skip_fields(b, pos) ==
    Bind(readInt(b, pos, 1), LAMBDA t :
        IF t.v = TType.STOP THEN ROk(<<>>, t.pos)
        ELSE Bind(readInt(b, t.pos, 2), LAMBDA id :
                 Bind(skip(b, id.pos, t.v), LAMBDA r : skip_fields(b, r.pos))))

\* skip of n values whose types cycle through types
skip_n(b, pos, types, n) ==
    IF n = 0 THEN ROk(<<>>, pos)
    ELSE Bind(skip(b, pos, Head(types)), LAMBDA r :
             skip_n(b, r.pos, Tail(types) \o <<Head(types)>>, n - 1))

-----------------------------------------------------------------------------
(* classes.py: CustomResponseMessage *)

\* _get_type_name(type_id); "unknown-<n>" is rendered "unknown"
_get_type_name(type_id) ==
    IF \E n \in DOMAIN FIELD_TYPE_MAP : FIELD_TYPE_MAP[n] = type_id
    THEN CHOOSE n \in DOMAIN FIELD_TYPE_MAP : FIELD_TYPE_MAP[n] = type_id
    ELSE "unknown"

JIntOf(r) == IF ~r.ok THEN r ELSE ROk(JInt(r.v), r.pos)

JStrOf(r) == IF ~r.ok THEN r ELSE ROk(JStr(r.v), r.pos)

\* {"note": ...} for an unknown tag, then protocol.skip(tag)
Unknown(b, pos, tag) ==
    Bind(skip(b, pos, tag), LAMBDA r : ROk([k |-> "note", tag |-> tag], r.pos))

RECURSIVE read_typed(_, _, _), _read_struct(_, _), read_struct_fields(_, _, _),
          _read_list(_, _), _read_set(_, _), read_elements(_, _, _, _, _),
          _read_map(_, _), read_map_entries(_, _, _, _, _, _, _)

\* the if/elif chain on a type tag shared by the struct, list, set and map readers
read_typed(b, pos, type) ==
    CASE type = TType.BOOL -> readBool(b, pos)
      [] type = TType.BYTE -> JIntOf(readByte(b, pos))
      [] type = TType.I16 -> JIntOf(readI16(b, pos))
      [] type = TType.I32 -> JIntOf(readI32(b, pos))
      [] type = TType.I64 -> readI64(b, pos)
      [] type = TType.DOUBLE -> readDouble(b, pos)
      [] type = TType.STRING -> JStrOf(readString(b, pos))
      [] type = TType.STRUCT -> _read_struct(b, pos)
      [] type = TType.LIST -> _read_list(b, pos)
      [] type = TType.SET -> _read_set(b, pos)
      [] type = TType.MAP -> _read_map(b, pos)
      [] OTHER -> Unknown(b, pos, type)

\* the while True loop of _read_struct and of _extract_reply
read_struct_fields(b, pos, fields) ==
    Bind(readByte(b, pos), LAMBDA field_type :
        IF field_type.v = TType.STOP THEN ROk(JStruct(fields), field_type.pos)
        ELSE Bind(readI16(b, field_type.pos), LAMBDA field_id :
                 Bind(read_typed(b, field_id.pos, field_type.v), LAMBDA value :
                     read_struct_fields(b, value.pos,
                         Append(fields, Field(field_id.v, _get_type_name(field_type.v),
                                              value.v))))))

\* _read_struct(protocol)
_read_struct(b, pos) == read_struct_fields(b, pos, <<>>)

\* the for loop of _read_list and _read_set
read_elements(b, pos, element_type, size, result) ==
    IF size = 0 THEN ROk(JList(result), pos)
    ELSE Bind(read_typed(b, pos, element_type), LAMBDA e :
             read_elements(b, e.pos, element_type, size - 1, Append(result, e.v)))

\* _read_list(protocol)
_read_list(b, pos) ==
    Bind(readListBegin(b, pos), LAMBDA h :
        read_elements(b, h.pos, h.v.etype, h.v.size, <<>>))

\* _read_set(protocol)
_read_set(b, pos) ==
    Bind(readListBegin(b, pos), LAMBDA h :
        read_elements(b, h.pos, h.v.etype, h.v.size, <<>>))

\* str(key) of a scalar key that was read
KeyText(r) ==
    IF r.v.k = "bigint" THEN ROk(r.v.b, r.pos) ELSE ROk(PyStr(r.v), r.pos)

\* the key of map entry i with the skip of a complex key left out
read_map_key_no_skip(b, pos, key_type, i) ==
    CASE key_type \in {TType.BOOL, TType.BYTE, TType.I16, TType.I32, TType.I64} ->
            Bind(read_typed(b, pos, key_type), KeyText)
      [] key_type = TType.STRING -> readString(b, pos)
      [] OTHER -> ROk(S("complex_key_") \o Decimal(i), pos)

\* the key of map entry i with the placeholder numbered from 1
read_map_key_one_based(b, pos, key_type, i) ==
    CASE key_type \in {TType.BOOL, TType.BYTE, TType.I16, TType.I32, TType.I64} ->
            Bind(read_typed(b, pos, key_type), KeyText)
      [] key_type = TType.STRING -> readString(b, pos)
      [] OTHER ->
            Bind(skip(b, pos, key_type), LAMBDA r :
                ROk(S("complex_key_") \o Decimal(i + 1), r.pos))

\* the key of map entry i: str() of a scalar key, else a placeholder and a skip
read_map_key(b, pos, key_type, i) ==
    CASE key_type \in {TType.BOOL, TType.BYTE, TType.I16, TType.I32, TType.I64} ->
            Bind(read_typed(b, pos, key_type), KeyText)
      [] key_type = TType.STRING -> readString(b, pos)
      [] OTHER ->
            Bind(skip(b, pos, key_type), LAMBDA r :
                ROk(S("complex_key_") \o Decimal(i), r.pos))

\* result[key] = val on a dict kept in insertion order
DictSet(pairs, key, val) ==
    IF \E j \in 1..Len(pairs) : pairs[j].key = key
    THEN [j \in 1..Len(pairs) |->
            IF pairs[j].key = key THEN [key |-> key, val |-> val] ELSE pairs[j]]
    ELSE Append(pairs, [key |-> key, val |-> val])

\* the for loop of _read_map
read_map_entries(b, pos, key_type, value_type, i, size, result) ==
    IF i = size THEN ROk(JMap(result), pos)
    ELSE Bind(read_map_key(b, pos, key_type, i), LAMBDA key :
             Bind(read_typed(b, key.pos, value_type), LAMBDA val :
                 read_map_entries(b, val.pos, key_type, value_type, i + 1, size,
                                  DictSet(result, key.v, val.v))))

\* _read_map(protocol)
_read_map(b, pos) ==
    Bind(readMapBegin(b, pos), LAMBDA h :
        read_map_entries(b, h.pos, h.v.ktype, h.v.vtype, 0, h.v.size, <<>>))

\* the try block of _extract_reply: the fields of the top-level struct
extract_reply_try(b, pos) == read_struct_fields(b, pos, <<>>)

\* the except clause of _extract_reply: any exception becomes {"error": ...}
ReplyOrError(r) == IF r.ok THEN r.v ELSE [k |-> "error", err |-> r.err]

\* _extract_reply(protocol)
_extract_reply(b, pos) == ReplyOrError(extract_reply_try(b, pos))

\* CustomResponseMessage(thrift_frame): its as_dict, or the exception of
\* readMessageBegin
CustomResponseMessage(thrift_frame) ==
    Bind(readMessageBegin(thrift_frame, 0), LAMBDA h :
        Ok([method |-> h.v.name, type |-> "reply", seqid |-> h.v.seqid,
            header |-> JNull, reply |-> _extract_reply(thrift_frame, h.pos),
            length |-> Len(thrift_frame), cls |-> "CustomResponseMessage"]))

-----------------------------------------------------------------------------
(* converter.py: the frame locator *)

\* the default markers of parse_data, in their configured order
markers ==
    << <<128, 1>>, <<130, 33>>, <<128, 1, 0, 1>>, <<128, 1, 0, 2>>,
       <<128, 1, 0, 3>>, <<128, 1, 0, 4>> >>

\* the sanity check of the structural attempt on the three metadata values
looks_like_frugal(n, frame_size, version, header_length) ==
    /\ BigLt(Big(0), frame_size) /\ BigLt(frame_size, Big(n))
    /\ 0 <= version /\ version <= 1
    /\ BigLt(header_length, frame_size)

\* the structural attempt: the 9-byte metadata read as an envelope, if accepted
structural(d) ==
    IF Len(d) <= 9 THEN Err("short")
    ELSE IF looks_like_frugal(Len(d), unpack_I(Slice(d, 0, 4)).v, d[5],
                              unpack_I(Slice(d, 5, 9)).v)
         THEN Ok(9 + unpack_I(Slice(d, 5, 9)).v.lo)
    ELSE Err("rejected")

\* the tuple appended for one marker, if it occurs
marker_hit(pos, marker) ==
    IF pos # -1 THEN << [pos |-> pos, marker |-> marker] >> ELSE <<>>

RECURSIVE marker_hits(_, _)
\* marker_positions after the loop over the markers: (pos, marker) per marker found
marker_hits(d, ms) ==
    IF ms = <<>> THEN <<>>
    ELSE marker_hit(find(d, Head(ms)), Head(ms)) \o marker_hits(d, Tail(ms))

RECURSIVE byte_scan(_, _)
\* the byte-by-byte scan: for i in range(len(data) - 2)
byte_scan(d, i) ==
    IF i >= Len(d) - 2 THEN <<>>
    ELSE (IF (d[i + 1] = 128 /\ d[i + 2] = 1) \/ (d[i + 1] = 130 /\ d[i + 2] = 33)
          THEN << [pos |-> i, marker |-> Slice(d, i, i + 2)] >> ELSE <<>>)
         \o byte_scan(d, i + 1)

\* the order of the (pos, marker) tuples that list.sort() uses
TupleLess(a, b) ==
    a.pos < b.pos \/ (a.pos = b.pos /\ BytesLess(a.marker, b.marker))

\* marker_positions[0] without the sort: the first marker of the list that occurs
first_listed(marker_positions) == marker_positions[1]

\* marker_positions.sort(); marker_positions[0]
sorted_first(marker_positions) ==
    marker_positions[CHOOSE i \in 1..Len(marker_positions) :
                         \A j \in 1..Len(marker_positions) :
                             ~TupleLess(marker_positions[j], marker_positions[i])]

\* what parse_data returns for a split at pos, and how the split was found
split(d, via, pos, marker) ==
    [ok |-> TRUE, via |-> via, pos |-> pos, marker |-> marker,
     header_data |-> Slice(d, 0, pos), thrift_frame |-> SliceFrom(d, pos)]

\* the marker search of parse_data: the loop over the markers, else the scan
marker_search(d, hits) == IF hits = <<>> THEN byte_scan(d, 0) ELSE hits

\* the end of parse_data: no marker raises, else the first sorted tuple splits
split_at_first(d, marker_positions) ==
    IF marker_positions = <<>> THEN Err("ValueError")
    ELSE Let(sorted_first(marker_positions), LAMBDA first :
             split(d, "marker", first.pos, first.marker))

\* parse_data(filename, markers=ms) on the base64-decoded bytes: header_data,
\* thrift_frame, and how the split was found (via, pos, marker)
parse_data_with(d, ms) ==
    Let(structural(d), LAMBDA st :
        IF st.ok THEN split(d, "structural", st.v, <<>>)
        ELSE split_at_first(d, marker_search(d, marker_hits(d, ms))))

\* parse_data(filename): markers is None, the default list is used
parse_data(d) == parse_data_with(d, markers)

-----------------------------------------------------------------------------
(* converter.py: the envelope decoder *)

\* a 4-byte length at offset, then that many bytes as UTF-8 text; next is the
\* offset after them
length_prefixed(mb, offset) ==
    Bind(unpack_I(BigSlice(mb, offset, BigAdd(offset, Big(4)))), LAMBDA n :
        Bind(utf8_decode(BigSlice(mb, BigAdd(offset, Big(4)),
                                  BigAdd(BigAdd(offset, Big(4)), n.v))), LAMBDA t :
            [ok |-> TRUE, v |-> t.v, next |-> BigAdd(BigAdd(offset, Big(4)), n.v)]))

RECURSIVE header_loop(_, _, _, _)
\* while offset < data_length: key length, key, value length, value
header_loop(mb, offset, data_length, headers) ==
    IF ~BigLt(offset, data_length) THEN Ok(headers)
    ELSE Bind(length_prefixed(mb, offset), LAMBDA key :
             Bind(length_prefixed(mb, key.next), LAMBDA value :
                 header_loop(mb, value.next, data_length,
                             DictSet(headers, key.v, value.v))))

\* decode_headers(header): {metadata, headers}
decode_headers(header) ==
    Bind(unpack_I(Slice(header, 0, 4)), LAMBDA message_length :
        Bind(unpack_B(Slice(header, 4, 5)), LAMBDA version :
            Bind(unpack_I(Slice(header, 5, 9)), LAMBDA header_length :
                Bind(header_loop(header, Big(9), header_length.v, <<>>), LAMBDA headers :
                    Ok([metadata |-> [message_length |-> message_length.v,
                                      version |-> version.v,
                                      header_length |-> header_length.v],
                        headers |-> headers.v])))))

-----------------------------------------------------------------------------
(* converter.py: the message decoder and the top-level decode *)

\* What thrift_tools' ThriftMessage.read may do on a frame slice.  The library
\* is not part of the repository: each call either returns a message (the
\* slice parsed from its offset 0), returns one json.dumps cannot serialise,
\* returns a falsy message, raises the unhashable-ThriftStruct TypeError, or
\* raises another exception.
LibOutcomes == {"msg", "msg_unserializable", "falsy", "unhashable", "raise"}

\* TMessageType as text
message_type_to_str(t) ==
    IF \E n \in DOMAIN msg_type_map : msg_type_map[n] = t
    THEN CHOOSE n \in DOMAIN msg_type_map : msg_type_map[n] = t
    ELSE "unknown"

\* the message ThriftMessage.read returns for a slice it accepts
LibMessage(frame_slice) ==
    Bind(readMessageBegin(frame_slice, 0), LAMBDA h :
        Bind(read_struct_fields(frame_slice, h.pos, <<>>), LAMBDA args :
            Ok([cls |-> "ThriftMessage", method |-> h.v.name,
                type |-> message_type_to_str(h.v.type), seqid |-> h.v.seqid,
                args |-> args.v, length |-> args.pos])))

\* the outcomes the library may have on a slice
LibAllowed(frame_slice) ==
    IF LibMessage(frame_slice).ok THEN LibOutcomes
    ELSE LibOutcomes \ {"msg", "msg_unserializable"}

\* create_empty_thrift_message()
create_empty_thrift_message ==
    [cls |-> "EmptyThriftMessage", method |-> S("unknown"), type |-> "unknown",
     seqid |-> 0, args |-> JNull, length |-> 0, error |-> TRUE]

candidates ==
    << <<128, 1, 0, 1>>, <<128, 1, 0, 2>>, <<130, 33, 0, 1>>, <<130, 33, 0, 2>>,
       <<128, 1>>, <<130, 33>> >>

response_markers == { <<128, 1, 0, 2>>, <<130, 33, 0, 2>> }

\* msg, msglen = ThriftMessage.read(frame_slice): Ok(object) when the loop
\* returns, Err when the candidate is passed over
read_request(frame_slice, outcome) ==
    CASE outcome = "msg" -> LibMessage(frame_slice)
      [] outcome = "msg_unserializable" ->
            Bind(LibMessage(frame_slice), LAMBDA m :
                Ok([m.v EXCEPT !.cls = "Unserializable"]))
      [] outcome = "falsy" -> Err("falsy")
      [] outcome = "unhashable" -> CustomResponseMessage(frame_slice)
      [] outcome = "raise" -> Err("Exception")

\* the body of the for loop for one candidate found at idx
try_candidate_at(thrift_frame, candidate, idx, libf) ==
    IF idx = -1 THEN Err("not found")
    ELSE IF candidate \in response_markers
         THEN CustomResponseMessage(SliceFrom(thrift_frame, idx))
    ELSE read_request(SliceFrom(thrift_frame, idx), libf[idx])

\* the body of the for loop for one candidate: Ok(object) when it returns,
\* Err when the candidate is passed over (not found, or an exception printed)
try_candidate(thrift_frame, candidate, libf) ==
    try_candidate_at(thrift_frame, candidate, find(thrift_frame, candidate), libf)

\* a result's value, or the fallback when it is an exception
OrElse(r, fallback) == IF r.ok THEN r.v ELSE fallback

RECURSIVE try_candidates(_, _, _)
\* for candidate in candidates: ...; then the empty message
try_candidates(thrift_frame, cands, libf) ==
    IF cands = <<>> THEN create_empty_thrift_message
    ELSE OrElse(try_candidate(thrift_frame, Head(cands), libf),
                try_candidates(thrift_frame, Tail(cands), libf))

\* decode_thrift_message(thrift_frame): the object whose as_dict is printed
decode_thrift_message(thrift_frame, libf) ==
    IF Slice(thrift_frame, 0, 4) \in response_markers
    THEN OrElse(CustomResponseMessage(thrift_frame),
                try_candidates(thrift_frame, candidates, libf))
    ELSE try_candidates(thrift_frame, candidates, libf)

\* the offsets at which decode_thrift_message may call ThriftMessage.read
LibOffsets(thrift_frame) ==
    {find(thrift_frame, candidates[i]) : i \in {1, 3, 5, 6}} \ {-1}

\* the library's behaviours on the slices of a frame
LibChoices(thrift_frame) ==
    {f \in [LibOffsets(thrift_frame) -> LibOutcomes] :
        \A o \in LibOffsets(thrift_frame) : f[o] \in LibAllowed(SliceFrom(thrift_frame, o))}

\* the error document of decode's except clause
error_info ==
    [kind |-> "error", metadata |-> <<>>, headers |-> <<>>,
     thrift |-> [method |-> S("unknown"), type |-> "unknown", seqid |-> 0,
                 args |-> JNull]]

\* message['thrift'] = thrift_message.as_dict; json.dumps(message)
render(message, thrift_message) ==
    IF thrift_message.cls = "None" THEN Err("AttributeError")
    ELSE IF thrift_message.cls = "Unserializable" THEN Err("TypeError")
    ELSE Ok([kind |-> "decoded", metadata |-> message.metadata,
             headers |-> message.headers, thrift |-> thrift_message,
             thrift_parse_error |-> (thrift_message.cls = "EmptyThriftMessage")])

\* the try block of decode: the document json.dumps renders, or the exception
decode_try(d, libf) ==
    Bind(parse_data(d), LAMBDA p :
        Bind(decode_headers(p.header_data), LAMBDA message :
            render(message.v, decode_thrift_message(p.thrift_frame, libf))))

\* decode without its except clause: the exception reaches the caller
print_or_raise(r) ==
    IF r.ok THEN [printed |-> <<r.v>>, raised |-> FALSE]
    ELSE [printed |-> <<>>, raised |-> TRUE]

\* the except clause of decode: the error document is printed instead
print_or_error(r) ==
    IF r.ok THEN [printed |-> <<r.v>>, raised |-> FALSE]
    ELSE [printed |-> <<error_info>>, raised |-> FALSE]

\* decode(filename): the documents printed and whether an exception escapes
decode(d, libf) == print_or_error(decode_try(d, libf))

-----------------------------------------------------------------------------
(* Bounds *)

\* the most header pairs in an input document
MaxHeaders == 2

\* the most zero bytes put in front of a message
MaxJunk == 2

\* the nesting depth of the typed values read back
MaxDepth == 2

-----------------------------------------------------------------------------
(* Inputs of encode: header mappings and message documents *)

HeaderKeys == {S(""), S("a"), <<233>>, S("user-agent")}

HeaderVals == {S(""), S("b"), S("test")}

RECURSIVE HeaderSeqs(_)
\* the ordered mappings with distinct keys of at most n pairs
HeaderSeqs(n) ==
    IF n = 0 THEN {<<>>}
    ELSE HeaderSeqs(n - 1) \cup
         {Append(h, [key |-> kk, val |-> vv]) :
            h \in {g \in HeaderSeqs(n - 1) : Len(g) = n - 1},
            kk \in HeaderKeys, vv \in HeaderVals}

DistinctKeys(h) == \A i, j \in 1..Len(h) : i # j => h[i].key # h[j].key

HeaderInputs == {h \in HeaderSeqs(MaxHeaders) : DistinctKeys(h)}

I32Struct == JStruct(<<Field(1, "i32", JInt(42))>>)

\* one-field argument structs; RoundTripVariants are those built from the
\* supported types in the shape the decoder prints
FieldVariants ==
    << Field(1, "bool", JBool(TRUE)),
       Field(1, "i8", JInt(-1)),
       Field(1, "i16", JInt(258)),
       Field(1, "i32", JInt(42)),
       Field(1, "i64", JInt(-5)),
       Field(1, "double", JFloat(3)),
       Field(1, "string", JStr(S("ab"))),
       Field(1, "string", JStr(<<233>>)),
       Field(1, "struct", I32Struct),
       Field(1, "struct", JStruct(<<>>)),
       Field(1, "list", JList(<<JInt(1), JInt(2)>>)),
       FieldOf(1, "list", JList(<<JInt(1)>>), "i64", "", ""),
       Field(1, "list", JList(<<JBool(TRUE), JBool(FALSE)>>)),
       Field(1, "list", JList(<<JFloat(1)>>)),
       Field(1, "list", JList(<<JStr(S("a"))>>)),
       Field(1, "list", JList(<<I32Struct>>)),
       Field(1, "list", JList(<<>>)),
       Field(1, "set", JList(<<JStr(S("a")), JStr(S("b"))>>)),
       Field(1, "set", JList(<<I32Struct>>)),
       Field(1, "set", JList(<<>>)),
       Field(1, "map", JMap(<<[key |-> S("a"), val |-> JStr(S("b"))]>>)),
       FieldOf(1, "map", JMap(<<[key |-> <<49>>, val |-> JInt(5)]>>), "", "i32", "i32"),
       FieldOf(1, "map", JMap(<<[key |-> S("True"), val |-> I32Struct]>>),
               "", "bool", "struct"),
       Field(1, "set", JList(<<JInt(1), JInt(2)>>)),
       FieldOf(1, "set", JList(<<JBool(TRUE)>>), "bool", "", ""),
       FieldOf(1, "map", JMap(<<[key |-> S("False"), val |-> JInt(1)]>>),
               "", "bool", "i32"),
       FieldOf(1, "list", JList(<<JList(<<JInt(1)>>)>>), "list", "", ""),
       FieldOf(1, "map", JMap(<<[key |-> S("a"), val |-> JList(<<JInt(1)>>)]>>),
               "", "string", "list"),
       Field(1, "map", JList(<<JEntry({"key", "value"}, JStr(S("a")), JStr(S("b")))>>)),
       Field(1, "map", JList(<<JEntry({"key"}, JStr(S("a")), JNull),
                               JEntry({"key", "value"}, JStr(S("a")), JStr(S("b")))>>)),
       Field(1, "map", JList(<<JStr(S("a"))>>)),
       FieldOf(1, "map", JMap(<<>>), "", "foo", ""),
       FieldOf(1, "map", JMap(<<[key |-> S("a"), val |-> JStr(S("b"))]>>),
               "", "", "foo"),
       FieldOf(1, "list", JList(<<JInt(1)>>), "foo", "", ""),
       Field(1, "binary", JStr(S("a"))),
       Field(1, "i8", JInt(300)),
       Field(1, "i32", JStr(S("ab"))),
       Field(1, "string", JInt(5)),
       Field(1, "i32", JNull),
       Field(1, "map", JNull),
       Field(1, "list", JInt(5)),
       Field(1, "list", JList(<<JStr(S("a")), JInt(1)>>)),
       Field(1, "set", JList(<<JFloat(1)>>)),
       Field(1, "set", JList(<<JBool(TRUE), JBool(FALSE)>>)),
       Field(1, "list", JNull),
       Field(1, "set", JNull),
       Field(1, "map", JMap(<<>>)),
       Field(1, "map", JList(<<>>)),
       FieldOf(1, "list", JList(<<JMap(<<[key |-> S("a"), val |-> JStr(S("b"))]>>)>>),
               "map", "", ""),
       FieldOf(1, "list", JList(<<JList(<<JStr(S("a"))>>)>>), "set", "", ""),
       FieldOf(1, "set", JList(<<JList(<<JInt(1)>>)>>), "list", "", ""),
       FieldOf(1, "map", JMap(<<[key |-> S("a"),
                                 val |-> JMap(<<[key |-> S("a"), val |-> JStr(S("b"))]>>)]>>),
               "", "string", "map") >>

\* variants 1..28 use only the supported types with values of the declared
\* type, written the way the decoder prints them
RoundTripVariants == 1..28

Kinds == {"call", "reply", "exception", "oneway"}

\* the message document of kind k whose args hold variant i (0: no field,
\* -1: args null, -2: two fields)
ThriftDoc(k, i) ==
    [method |-> S("m"), type |-> k, seqid |-> 1,
     args |-> IF i = -1 THEN JNull
              ELSE IF i = 0 THEN JStruct(<<>>)
              ELSE IF i = -2
                   THEN JStruct(<<Field(1, "i32", JInt(42)),
                                  Field(2, "set", JList(<<JStr(S("a"))>>))>>)
              ELSE JStruct(<<FieldVariants[i]>>)]

\* the header mapping {"user-agent": "test"}
PlainHeaders == <<[key |-> S("user-agent"), val |-> S("test")]>>

\* the input documents: every header mapping with one message, and one header
\* mapping with every message
EncodeInputs ==
    {[h |-> h, k |-> "reply", i |-> 4] : h \in HeaderInputs}
        \cup {[h |-> PlainHeaders, k |-> kk, i |-> ii] :
                kk \in Kinds \cup {"unknown"}, ii \in (-2)..Len(FieldVariants)}

-----------------------------------------------------------------------------
(* Inputs of decode: a message, possibly damaged, behind a prefix *)

MsgHeader(b1, b2, type) == <<b1, b2, 0, type, 0, 0, 0, 1, 109, 0, 0, 0, 1>>

RH == MsgHeader(128, 1, 2)

F_i32 == <<8, 0, 1, 0, 0, 0, 42>>

Bodies ==
    << RH \o F_i32 \o <<0>>,
       RH \o F_i32 \o <<11, 0, 2, 0, 0, 0, 5, 97>>,
       RH \o F_i32 \o <<7, 0, 2, 9>> \o <<6, 0, 3, 1, 2>> \o <<0>>,
       RH \o F_i32 \o <<12, 0, 2, 8, 0, 1, 0, 0>>,
       RH \o <<12, 0, 1>> \o F_i32 \o <<11, 0, 2, 0, 0, 0, 1, 255, 0>> \o <<0>>,
       RH \o <<15, 0, 1, 8, 0, 0, 0, 2, 0, 0, 0, 1>> \o <<0>>,
       RH \o <<0>>,
       RH,
       MsgHeader(128, 1, 1) \o F_i32 \o <<0>>,
       MsgHeader(128, 1, 3) \o F_i32 \o <<0>>,
       MsgHeader(128, 1, 4) \o <<8, 0, 1, 128, 1, 0, 2>> \o <<0>>,
       MsgHeader(130, 33, 2) \o F_i32 \o <<0>>,
       MsgHeader(130, 33, 1) \o <<0>> \o RH \o F_i32 \o <<0>>,
       RH \o <<8, 0, 1, 130, 33, 0, 1>> \o <<0>>,
       <<128, 1>>,
       <<1, 2, 3>>,
       <<>>,
       MsgHeader(128, 1, 4) \o <<11, 0, 1, 0, 0, 0, 22, 194>> \o (RH \o F_i32 \o <<0>>)
            \o <<0>> >>

RECURSIVE Zeros(_)
Zeros(n) == IF n = 0 THEN <<>> ELSE <<0>> \o Zeros(n - 1)

\* the 9 bytes of metadata, with frame size fs, version v and header length hl
Meta(fs, v, hl) == pack_I(Big(fs)).v \o <<v>> \o pack_I(Big(hl)).v

\* the header block of {"a": "b"}
BlockAB == <<0, 0, 0, 1, 97, 0, 0, 0, 1, 98>>

\* a block whose key length (5) runs past the end of the block
BlockKeyOver == <<0, 0, 0, 5, 97, 0, 0, 0, 1, 98>>

\* a block whose value length (5) runs past the end of the block
BlockValOver == <<0, 0, 0, 1, 97, 0, 0, 0, 5, 98>>

PrefixKinds ==
    {"variant", "zeros9", "env", "env_ab", "env_fs5", "env_v1", "env_v2",
     "env_hl_short", "env_hl_long", "env_key_over", "env_val_over",
     "env_fs_big", "env_fs_len"}

\* what stands in front of message body b
Prefix(kind, b) ==
    CASE kind = "variant" -> <<130, 33, 0>>
      [] kind = "zeros9" -> Zeros(9)
      [] kind = "env" -> Meta(Len(b) + 5, 0, 0)
      [] kind = "env_ab" -> Meta(Len(b) + 15, 0, 10) \o BlockAB
      [] kind = "env_fs5" -> Meta(5, 0, 0)
      [] kind = "env_v1" -> Meta(Len(b) + 6, 1, 1) \o <<0>>
      [] kind = "env_v2" -> Meta(Len(b) + 5, 2, 0)
      [] kind = "env_hl_short" -> Meta(Len(b) + 15, 0, 5) \o BlockAB
      [] kind = "env_hl_long" -> Meta(Len(b) + 5, 0, Len(b) + 4)
      [] kind = "env_key_over" -> Meta(Len(b) + 15, 0, 10) \o BlockKeyOver
      [] kind = "env_val_over" -> Meta(Len(b) + 15, 0, 10) \o BlockValOver
      [] kind = "env_fs_big" -> Meta(Len(b) + 15, 0, 0)
      [] kind = "env_fs_len" -> Meta(Len(b) + 9, 0, 0)

DecodeInputs ==
    {Prefix(kk, Bodies[i]) \o Bodies[i] : kk \in PrefixKinds, i \in 1..Len(Bodies)}
        \cup {Zeros(n) \o Bodies[i] : n \in 0..MaxJunk, i \in 1..Len(Bodies)}

-----------------------------------------------------------------------------
(* Inputs of the struct reader: typed values and their wire form *)

TScalar(t, v) == [t |-> t, v |-> v]

TStruct(fs) == [t |-> TType.STRUCT, fs |-> fs]

TList(t, et, xs) == [t |-> t, et |-> et, xs |-> xs]

TMap(kt, vt, kvs) == [t |-> TType.MAP, kt |-> kt, vt |-> vt, kvs |-> kvs]

Scalars ==
    << TScalar(TType.BOOL, TRUE), TScalar(TType.BYTE, -1), TScalar(TType.I16, 258),
       TScalar(TType.I32, 42), TScalar(TType.I64, -5), TScalar(TType.DOUBLE, 3),
       TScalar(TType.STRING, <<97, 233>>) >>

\* the containers built around a typed value x
Grow(x) ==
    << TStruct(<<[id |-> 1, x |-> x]>>),
       TStruct(<<[id |-> 2, x |-> x], [id |-> -3, x |-> TScalar(TType.I32, 7)]>>),
       TList(TType.LIST, x.t, <<x, x>>),
       TList(TType.LIST, x.t, <<>>),
       TList(TType.SET, x.t, <<x>>),
       TMap(x.t, x.t, <<[key |-> x, val |-> x]>>),
       TMap(TType.STRING, x.t, <<[key |-> TScalar(TType.STRING, <<97>>), val |-> x],
                                 [key |-> TScalar(TType.STRING, <<98>>), val |-> x]>>),
       TMap(x.t, TType.I32, <<[key |-> x, val |-> TScalar(TType.I32, 7)],
                              [key |-> x, val |-> TScalar(TType.I32, 8)]>>) >>

\* the number of containers Grow builds around a value
Width == Len(Grow(Scalars[1]))

\* every container of Grow around every value of sub
GrowAll(sub) ==
    [j \in 1..(Width * Len(sub)) |->
        Grow(sub[((j - 1) \div Width) + 1])[((j - 1) % Width) + 1]]

RECURSIVE Trees(_)
\* the typed values nested at most d deep
Trees(d) ==
    IF d = 0 THEN Scalars ELSE Let(Trees(d - 1), LAMBDA sub : sub \o GrowAll(sub))

AllTrees == Trees(MaxDepth)

RECURSIVE Wire(_), WireFields(_), WireAll(_), WirePairs(_)
\* the binary-protocol bytes of a typed value
Wire(x) ==
    CASE x.t = TType.BOOL -> writeBool(x.v).v
      [] x.t \in {TType.BYTE, TType.I16, TType.I32, TType.I64, TType.DOUBLE} ->
            writeScalar(x.t, Ok(x.v)).v
      [] x.t = TType.STRING -> writeString(x.v).v
      [] x.t = TType.STRUCT -> WireFields(x.fs) \o <<TType.STOP>>
      [] x.t \in {TType.LIST, TType.SET} ->
            writeListBegin(x.et, Len(x.xs)).v \o WireAll(x.xs)
      [] x.t = TType.MAP ->
            writeMapBegin(x.kt, x.vt, Len(x.kvs)).v \o WirePairs(x.kvs)

WireFields(fs) ==
    IF fs = <<>> THEN <<>>
    ELSE writeFieldBegin(Head(fs).x.t, Head(fs).id).v \o Wire(Head(fs).x)
            \o WireFields(Tail(fs))

WireAll(xs) == IF xs = <<>> THEN <<>> ELSE Wire(Head(xs)) \o WireAll(Tail(xs))

WirePairs(kvs) ==
    IF kvs = <<>> THEN <<>>
    ELSE Wire(Head(kvs).key) \o Wire(Head(kvs).val) \o WirePairs(Tail(kvs))

\* what may follow a struct in the buffer
Tails == { <<>>, <<0>>, <<8, 0, 1>> }

\* sample i: the struct {1: AllTrees[i]}, and for a struct AllTrees[i] itself
TopStruct(i, wrap) ==
    IF wrap THEN TStruct(<<[id |-> 1, x |-> AllTrees[i]]>>) ELSE AllTrees[i]

StructInputs ==
    {[i |-> i, wrap |-> w, tail |-> t] :
        i \in 1..Len(AllTrees), w \in BOOLEAN, t \in Tails}

SampleBytes(sm) == Wire(TopStruct(sm.i, sm.wrap))

-----------------------------------------------------------------------------
(* Inputs of parse_data called with a marker list *)

\* the bytes the buffers are made of: the two protocol prefixes and two others
LocateBytes == {0, 1, 33, 128, 130}

\* the longest buffer of LocateBytes
MaxScan == 3

\* every buffer of at most MaxScan bytes
ShortBuffers == UNION {[1..n -> LocateBytes] : n \in 0..MaxScan}

\* short buffers, alone and behind 9 zero bytes, and buffers behind an envelope
LocateInputs ==
    ShortBuffers
        \cup {Zeros(9) \o s : s \in {t \in ShortBuffers : Len(t) = 2}}
        \cup {Meta(5, 0, 0) \o s : s \in {t \in ShortBuffers : Len(t) = 2}}

\* the marker lists parse_data is called with: the default list, lists without
\* the two-byte prefixes, the empty list
MarkerLists ==
    { markers, << <<128, 1, 0, 1>>, <<128, 1, 0, 2>> >>, << <<130, 33>> >>, <<>> }

-----------------------------------------------------------------------------
(* The entry points as actions *)

Idle(m) ==
    /\ mode = m /\ pc = "start" /\ lib = <<>> /\ wire = 0 /\ located = 0
    /\ thrift_obj = 0 /\ printed = <<>> /\ raised = FALSE /\ rd = 0

\* python converter.py -d: any input bytes
Init == Idle("decode") /\ doc = 0 /\ data \in DecodeInputs /\ sample = 0

\* python converter.py -e: any input document
InitEncode ==
    /\ Idle("encode") /\ data = <<>> /\ sample = 0
    /\ \E e \in EncodeInputs : doc = [headers |-> e.h, thrift |-> ThriftDoc(e.k, e.i),
                                      variant |-> e.i]

\* a CustomResponseMessage reading a well-formed struct
InitStruct ==
    /\ Idle("struct") /\ doc = 0 /\ data = <<>>
    /\ sample \in {sm \in StructInputs : sm.wrap \/ AllTrees[sm.i].t = TType.STRUCT}

\* parse_data(filename, markers): any input bytes, any marker list
InitLocate ==
    /\ Idle("locate") /\ doc = 0 /\ data \in LocateInputs
    /\ sample \in {[markers |-> ms] : ms \in MarkerLists}

\* the object decode_thrift_message returned, if decode got that far
reached(p, f) ==
    IF p.ok /\ decode_headers(p.header_data).ok
    THEN decode_thrift_message(p.thrift_frame, f)
    ELSE [cls |-> "not reached"]

\* what decode leaves behind on input d with the library behaving as f
DecodeEffect(d, f) ==
    /\ lib' = f
    /\ located' = parse_data(d)
    /\ thrift_obj' = reached(located', f)
    /\ \E r \in {decode(d, f)} : printed' = r.printed /\ raised' = r.raised

\* the library's behaviours that decode can meet on input d
Behaviours(d) ==
    Let(parse_data(d), LAMBDA p : IF p.ok THEN LibChoices(p.thrift_frame) ELSE { <<>> })

\* decode(filename)
Decode ==
    /\ mode = "decode" /\ pc = "start"
    /\ \E f \in Behaviours(data) : DecodeEffect(data, f)
    /\ pc' = "done"
    /\ UNCHANGED <<mode, doc, data, wire, sample, rd>>

\* encode_data(filename): the bytes, or the exception reaching the caller
EncodeData ==
    /\ mode = "encode" /\ pc = "start"
    /\ wire' = encode_data(doc)
    /\ raised' = ~wire'.ok
    /\ pc' = IF wire'.ok THEN "encoded" ELSE "failed"
    /\ UNCHANGED <<mode, doc, data, lib, located, thrift_obj, printed, sample, rd>>

\* decode(filename) on what encode_data printed
DecodeEncoded ==
    /\ mode = "encode" /\ pc = "encoded"
    /\ data' = wire.v
    /\ \E f \in Behaviours(wire.v) : DecodeEffect(wire.v, f)
    /\ pc' = "roundtrip"
    /\ UNCHANGED <<mode, doc, wire, sample, rd>>

\* _read_struct(protocol) at the start of the sample's bytes
ReadStruct ==
    /\ mode = "struct" /\ pc = "start"
    /\ data' = SampleBytes(sample) \o sample.tail
    /\ rd' = _read_struct(data', 0)
    /\ pc' = "read"
    /\ UNCHANGED <<mode, doc, lib, wire, located, thrift_obj, printed, raised, sample>>

\* CustomResponseMessage(frame): _extract_reply after the message header
ExtractReply ==
    /\ mode = "struct" /\ pc = "start"
    /\ data' = RH \o SampleBytes(sample) \o sample.tail
    /\ rd' = extract_reply_try(data', Len(RH))
    /\ thrift_obj' = CustomResponseMessage(data').v
    /\ pc' = "extracted"
    /\ UNCHANGED <<mode, doc, lib, wire, located, printed, raised, sample>>

\* parse_data(filename, markers)
ParseData ==
    /\ mode = "locate" /\ pc = "start"
    /\ located' = parse_data_with(data, sample.markers)
    /\ pc' = "located"
    /\ UNCHANGED <<mode, doc, data, lib, wire, thrift_obj, printed, raised, sample, rd>>

Next == Decode

NextEncode == EncodeData \/ DecodeEncoded

NextStruct == ReadStruct \/ ExtractReply

NextLocate == ParseData

\* the decoder on arbitrary input bytes
Spec == Init /\ [][Next]_vars

\* the encoder on input documents, and the decoder on what it produced
SpecEncode == InitEncode /\ [][NextEncode]_vars

\* the struct reader on well-formed structs
SpecStruct == InitStruct /\ [][NextStruct]_vars

\* the frame locator on arbitrary input bytes with a marker list
SpecLocate == InitLocate /\ [][NextLocate]_vars

-----------------------------------------------------------------------------
(* Structural equality of documents *)

RECURSIVE JEq(_, _), SameItems(_, _), SameFields(_, _), SamePairs(_, _)

\* the same JSON value
JEq(a, b) ==
    /\ a.k = b.k
    /\ CASE a.k = "null" -> TRUE
         [] a.k \in {"bool", "int", "float", "str"} -> a.v = b.v
         [] a.k = "list" -> SameItems(a.v, b.v)
         [] a.k = "struct" -> SameFields(a.fields, b.fields)
         [] a.k = "map" -> SamePairs(a.v, b.v)
         [] OTHER -> FALSE

SameItems(xs, ys) ==
    /\ Len(xs) = Len(ys)
    /\ \A i \in 1..Len(xs) : JEq(xs[i], ys[i])

\* the same field ids, field types and values in the same order
SameFields(fs, gs) ==
    /\ Len(fs) = Len(gs)
    /\ \A i \in 1..Len(fs) :
          /\ fs[i].field_id = gs[i].field_id
          /\ fs[i].field_type = gs[i].field_type
          /\ JEq(fs[i].value, gs[i].value)

SamePairs(ps, qs) ==
    /\ Len(ps) = Len(qs)
    /\ \A i \in 1..Len(ps) : ps[i].key = qs[i].key /\ JEq(ps[i].val, qs[i].val)

\* the struct of a decoded message: "reply" of a CustomResponseMessage, else "args"
BodyOf(t) == IF t.cls = "CustomResponseMessage" THEN t.reply ELSE t.args

\* decoded message t is structurally equal to message document m
SameMessage(m, t) ==
    /\ t.method = m.method /\ t.type = m.type /\ t.seqid = m.seqid
    /\ JEq(m.args, BodyOf(t))

\* ThriftMessage.read parsed every slice it was given
Faithful == \A o \in DOMAIN lib : lib[o] = "msg"

\* the input document is a message of a known kind built from the supported types
Supported ==
    /\ doc.headers = PlainHeaders
    /\ doc.thrift.type \in Kinds
    /\ doc.variant \in RoundTripVariants \cup {0, -2}

-----------------------------------------------------------------------------
(* C1..C10 *)

\* C1 (as claimed): every message document built only from the supported types,
\* of every message kind, is encoded, and decoding the bytes encode produced
\* yields a document structurally equal to it: same method, kind, seqid, and
\* the same field ids, field types and values in the same order.
C1_RoundTrip ==
    Supported =>
        /\ pc # "failed"
        /\ (pc = "roundtrip" /\ Faithful) =>
              /\ printed[1].kind = "decoded"
              /\ SameMessage(doc.thrift, printed[1].thrift)

\* C2 (as claimed): whenever decode succeeds (prints metadata, not the error
\* document), message_length = 5 + header_length + len(thrift_frame), where
\* thrift_frame is the message part parse_data returned.
C2_FrameSize ==
    (pc = "done" /\ printed[1].kind = "decoded") =>
        printed[1].metadata.message_length
            = BigAdd(BigAdd(Big(5), printed[1].metadata.header_length),
                     Big(Len(located.thrift_frame)))

\* the thrift part of the error document
Placeholder == [method |-> S("unknown"), type |-> "unknown", seqid |-> 0, args |-> JNull]

\* C3: on every input buffer decode raises nothing to its caller and prints
\* exactly one document, a decoded document or the error document whose thrift
\* part is the placeholder; decode_thrift_message never returns nothing.
C3_Resilience ==
    pc = "done" =>
        /\ ~raised
        /\ Len(printed) = 1
        /\ \/ printed[1].kind = "decoded"
           \/ printed[1].kind = "error" /\ printed[1].thrift = Placeholder
        /\ thrift_obj.cls # "None"

\* C3's case: a buffer with no marker at all ends in the error document
C3_Witness ==
    /\ pc = "done" /\ ~located.ok
    /\ printed = <<error_info>>

\* C4 (as claimed): for every ordered text-to-text mapping with distinct keys,
\* empty texts and one-character keys included, decoding the header block that
\* encode built from it, behind the 9-byte metadata with header_length the
\* length of the block, reproduces exactly the mapping: no pair is dropped.
C4_HeaderRoundTrip ==
    pc = "roundtrip" =>
        /\ printed[1].kind = "decoded"
        /\ printed[1].headers = doc.headers

RECURSIVE HeaderBlock(_)
\* the header block the claimed format prescribes: every length prefix is the
\* number of UTF-8 bytes that follow it
HeaderBlock(headers) ==
    IF headers = <<>> THEN <<>>
    ELSE pack_I(Big(Len(utf8_encode(Head(headers).key).v))).v
            \o utf8_encode(Head(headers).key).v
            \o pack_I(Big(Len(utf8_encode(Head(headers).val).v))).v
            \o utf8_encode(Head(headers).val).v
            \o HeaderBlock(Tail(headers))

\* C5 (as claimed): the bytes encode produces are frame_size, the version byte
\* 0, header_length, the header block, the message bytes, with header_length
\* the byte length of the block and frame_size = len(block) + len(message) + 5,
\* and every length prefix of the block is the UTF-8 byte count of its text.
C5_Framing ==
    pc = "encoded" =>
        /\ Slice(wire.v, 0, 4) = pack_I(Big(Len(wire.v) - 4)).v
        /\ wire.v[5] = 0
        /\ Slice(wire.v, 5, 9) = pack_I(Big(Len(HeaderBlock(doc.headers)))).v
        /\ SliceFrom(wire.v, 9)
              = HeaderBlock(doc.headers) \o write_thrift_message(doc.thrift).v

\* C6 (as claimed): a message with no envelope in front of it (the structural
\* attempt rejected, the marker found at an offset below 9) decodes to a
\* normal document with an empty header document, not to the error document.
C6_BareMessage ==
    (pc = "done" /\ located.ok /\ located.via = "marker" /\ located.pos < 9) =>
        /\ printed[1].kind = "decoded"
        /\ printed[1].headers = <<>>

\* the field variants that name a type outside the recognized set
UnknownTypeVariants == 32..35

\* the field variants with a map entry that cannot be encoded
BadEntryVariants == {30, 31}

\* C7 (as claimed): a document that names an unrecognized type, or holds a
\* container entry that cannot be encoded (a map entry without both "key" and
\* "value"), makes encode fail: it never completes with output bytes.
C7_EncodeFails ==
    doc.variant \in UnknownTypeVariants \cup BadEntryVariants => pc \in {"start", "failed"}

\* the first-occurrence offsets of the configured markers that occur in d
Offsets(d) == {find(d, markers[i]) : i \in 1..Len(markers)} \ {-1}

\* the smallest of them
MinOffset(d) == CHOOSE o \in Offsets(d) : \A q \in Offsets(d) : o <= q

\* the marker earliest in the configured list that first occurs at offset o
EarliestAt(d, o) ==
    markers[CHOOSE i \in 1..Len(markers) :
                /\ find(d, markers[i]) = o
                /\ \A j \in 1..(i - 1) : find(d, markers[j]) # o]

C9_StructExact ==
    /\ pc = "read" =>
          /\ rd.ok
          /\ rd.pos = Len(SampleBytes(sample))
          /\ data[rd.pos] = TType.STOP
    /\ pc = "extracted" =>
          /\ rd.ok
          /\ rd.pos = Len(RH) + Len(SampleBytes(sample))
          /\ data[rd.pos] = TType.STOP
          /\ thrift_obj.reply = rd.v

\* a typed value holds a struct inside a list, a set or a map
HoldsStruct(x) ==
    \/ x.t \in {TType.LIST, TType.SET} /\ x.et = TType.STRUCT /\ x.xs # <<>>
    \/ x.t = TType.MAP /\ x.kt = TType.STRUCT /\ x.kvs # <<>>

\* C9's case: a struct whose field holds structs inside a container was read,
\* with bytes following it in the buffer
C9_Witness ==
    /\ pc = "read" /\ rd.ok
    /\ sample.wrap /\ HoldsStruct(AllTrees[sample.i])
    /\ sample.tail # <<>>
    /\ rd.pos < Len(data)

\* the bytes CustomResponseMessage was built on: the last thrift_obj.length bytes
FrameSlice == SliceFrom(data, Len(data) - thrift_obj.length)

\* C10 (as claimed): when decoding one field of a struct fails, the fields
\* decoded before it remain in the result and the failure is not escalated to
\* the struct: a reply whose first field is the i32 42 keeps it, whatever
\* follows.
C10_FieldRecovery ==
    (/\ pc = "done" /\ thrift_obj.cls = "CustomResponseMessage"
     /\ MatchAt(FrameSlice, F_i32, Len(RH))) =>
        /\ thrift_obj.reply.k = "struct"
        /\ Len(thrift_obj.reply.fields) >= 1
        /\ thrift_obj.reply.fields[1] = Field(1, "i32", JInt(42))

-----------------------------------------------------------------------------
(* C11..C19 *)

\* the three metadata values at the front of a buffer longer than 9 bytes
frameSize(d) == unpack_I(Slice(d, 0, 4)).v

headerLength(d) == unpack_I(Slice(d, 5, 9)).v

\* the acceptance condition of the structural attempt, as claimed
Accepted(d) ==
    /\ Len(d) > 9
    /\ BigLt(Big(0), frameSize(d)) /\ BigLt(frameSize(d), Big(Len(d)))
    /\ d[5] \in {0, 1}
    /\ BigLt(headerLength(d), frameSize(d))

\* C11 (as claimed): on a buffer longer than 9 bytes the envelope reading is
\* accepted exactly when 0 < frameSize < len(data), version is 0 or 1 and
\* headerLength < frameSize; when accepted it wins over any marker in the
\* buffer and the split is at 9 + headerLength: the header bytes returned are
\* exactly 9 + headerLength bytes long and the message bytes are the rest.
C11_Structural ==
    (pc = "done" /\ Len(data) > 9) =>
        /\ (located.ok /\ located.via = "structural") <=> Accepted(data)
        /\ Accepted(data) =>
              /\ located.pos = 9 + headerLength(data).lo
              /\ Len(located.header_data) = 9 + headerLength(data).lo
              /\ located.header_data \o located.thrift_frame = data

\* C11 without the length of the header bytes: acceptance, priority over the
\* markers, and the two parts being the buffer cut at 9 + headerLength
C11_Priority ==
    (pc = "done" /\ Len(data) > 9) =>
        /\ (located.ok /\ located.via = "structural") <=> Accepted(data)
        /\ Accepted(data) =>
              /\ located.pos = 9 + headerLength(data).lo
              /\ located.header_data = Slice(data, 0, located.pos)
              /\ located.thrift_frame = SliceFrom(data, located.pos)

\* the length field at offset of header buffer mb declares more bytes than
\* remain after it
Declares(mb, offset) ==
    /\ offset + 4 <= Len(mb)
    /\ BigLt(Big(Len(mb) - (offset + 4)), unpack_I(Slice(mb, offset, offset + 4)).v)

\* the offset after the length field at offset and the bytes it declares
After(mb, offset) == offset + 4 + unpack_I(Slice(mb, offset, offset + 4)).v.lo

RECURSIVE OverrunFrom(_, _, _)
\* walking the pairs of the block from offset, as long as offset < data_length
\* and the length fields are whole: some key or value length overruns
OverrunFrom(mb, offset, data_length) ==
    IF ~BigLt(Big(offset), data_length) \/ offset + 4 > Len(mb) THEN FALSE
    ELSE IF Declares(mb, offset) THEN TRUE
    ELSE IF After(mb, offset) + 4 > Len(mb) THEN FALSE
    ELSE IF Declares(mb, After(mb, offset)) THEN TRUE
    ELSE OverrunFrom(mb, After(mb, After(mb, offset)), data_length)

\* a header buffer with a length field that runs past the buffer end
Overrun(mb) == Len(mb) >= 9 /\ OverrunFrom(mb, 9, headerLength(mb))

\* C12 (as claimed): whenever a key-length or value-length field of the header
\* block declares more bytes than remain in the header buffer, decoding the
\* headers fails: decode prints the error document, never a headers mapping
\* with a silently truncated key or value.
C12_HeaderBounds ==
    (pc = "done" /\ located.ok /\ Overrun(located.header_data)) =>
        printed[1].kind = "error"

\* C12 for key lengths alone: a key length that overruns the buffer makes the
\* read of the value length fail
C12_KeyBounds ==
    (pc = "done" /\ located.ok /\ Len(located.header_data) >= 9
     /\ BigLt(Big(9), headerLength(located.header_data))
     /\ Declares(located.header_data, 9)) =>
        printed[1].kind = "error"

\* the key text claimed for entry i of a map: the string form of a Bool, Byte,
\* I16, I32, I64 or String key, else the placeholder "complex_key_<i>"
KeyString(key, i) ==
    CASE key.t = TType.BOOL -> IF key.v THEN S("True") ELSE S("False")
      [] key.t \in {TType.BYTE, TType.I16, TType.I32, TType.I64} -> Decimal(key.v)
      [] key.t = TType.STRING -> key.v
      [] OTHER -> S("complex_key_") \o Decimal(i)

RECURSIVE Expect(_), ExpectFields(_), ExpectAll(_), ExpectPairs(_, _, _)
\* the document claimed for a typed value
Expect(x) ==
    CASE x.t = TType.BOOL -> JBool(x.v)
      [] x.t \in {TType.BYTE, TType.I16, TType.I32, TType.I64} -> JInt(x.v)
      [] x.t = TType.DOUBLE -> JFloat(x.v)
      [] x.t = TType.STRING -> JStr(x.v)
      [] x.t = TType.STRUCT -> JStruct(ExpectFields(x.fs))
      [] x.t \in {TType.LIST, TType.SET} -> JList(ExpectAll(x.xs))
      [] x.t = TType.MAP -> JMap(ExpectPairs(x.kvs, 0, <<>>))

ExpectFields(fs) ==
    [j \in 1..Len(fs) |-> Field(fs[j].id, _get_type_name(fs[j].x.t), Expect(fs[j].x))]

ExpectAll(xs) == [j \in 1..Len(xs) |-> Expect(xs[j])]

\* entry i, i + 1, ... put into the object in wire order
ExpectPairs(kvs, i, acc) ==
    IF kvs = <<>> THEN acc
    ELSE ExpectPairs(Tail(kvs), i + 1,
                     DictSet(acc, KeyString(Head(kvs).key, i), Expect(Head(kvs).val)))

\* C13: a map of declared count n is read entry by entry, key then value: a
\* Bool, Byte, I16, I32, I64 or String key becomes its string form, a key of
\* any other type is skipped and replaced by "complex_key_<i>" (i from 0), the
\* value is decoded recursively under the declared value type, and after the
\* n-th entry the read position is the end of the map: the next byte read is
\* the Stop of the enclosing struct.
C13_MapDecoding ==
    (pc = "read" /\ sample.wrap /\ AllTrees[sample.i].t = TType.MAP) =>
        /\ rd.ok
        /\ rd.v.fields[1].value = Expect(AllTrees[sample.i])
        /\ rd.pos = Len(SampleBytes(sample))
        /\ data[rd.pos] = TType.STOP

\* C13's case: a map of two entries whose keys are containers was read; the
\* second key is "complex_key_1"
C13_Witness ==
    /\ pc = "read" /\ rd.ok /\ sample.wrap
    /\ AllTrees[sample.i].t = TType.MAP
    /\ AllTrees[sample.i].kt \in {TType.STRUCT, TType.LIST, TType.SET, TType.MAP}
    /\ Len(AllTrees[sample.i].kvs) = 2
    /\ Len(rd.v.fields[1].value.v) = 2
    /\ rd.v.fields[1].value.v[2].key = S("complex_key_") \o <<49>>
    /\ rd.v.fields[1].value.v[2].val = JInt(8)

\* the one field of the input document's message
TheField == doc.thrift.args.fields[1]

\* the message bytes of what encode produced: everything after the header block
MessageBytes == SliceFrom(wire.v, 9 + headerLength(wire.v).lo)

\* the offset in MessageBytes of the value of the first field: after the
\* message header and the field's type and id
ValueAt == Len(writeMessageBegin(doc.thrift.method, 1, doc.thrift.seqid).v) + 3

\* the input document holds one field, a list or a set (kinds) without an
\* explicit element type, whose items are all scalars or all field-bearing
InferCase(kinds) ==
    /\ doc.variant >= 1
    /\ TheField.field_type \in kinds
    /\ TheField.element_type = ""
    /\ TheField.value.k = "list" /\ TheField.value.v # <<>>
    /\ \/ \A i \in 1..Len(TheField.value.v) : IsScalar(TheField.value.v[i])
       \/ \A i \in 1..Len(TheField.value.v) : TheField.value.v[i].k = "struct"

\* the claimed precedence: Bool, I32, Double, else String for scalars and
\* Struct for field-bearing objects
ClaimedElementType(items) ==
    IF \A i \in 1..Len(items) : items[i].k = "bool" THEN TType.BOOL
    ELSE IF \A i \in 1..Len(items) : items[i].k = "int" THEN TType.I32
    ELSE IF \A i \in 1..Len(items) : items[i].k = "float" THEN TType.DOUBLE
    ELSE IF \A i \in 1..Len(items) : IsScalar(items[i]) THEN TType.STRING
    ELSE TType.STRUCT

\* C14 (as claimed): a non-empty list or set without an explicit element type
\* is written with the element type of the fixed precedence (all boolean:
\* Bool; all integer: I32; all floating: Double; else String for scalars,
\* Struct for field-bearing objects), the same for lists and for sets.
C14_Inference ==
    (pc = "encoded" /\ InferCase({"list", "set"})) =>
        MessageBytes[ValueAt + 1] = ClaimedElementType(TheField.value.v)

\* C14 for lists alone
C14_ListInference ==
    (pc = "encoded" /\ InferCase({"list"})) =>
        MessageBytes[ValueAt + 1] = ClaimedElementType(TheField.value.v)

\* the input document holds one field, a container (kinds) that is null or
\* empty and names no element, key or value type
EmptyCase(kinds) ==
    /\ doc.variant >= 1
    /\ doc.thrift.type \in Kinds
    /\ TheField.field_type \in kinds
    /\ TheField.element_type = "" /\ TheField.key_type = "" /\ TheField.value_type = ""
    /\ \/ TheField.value.k = "null"
       \/ TheField.value.k \in {"list", "map"} /\ TheField.value.v = <<>>

\* the header claimed for an empty container: String as element type, or as key
\* and value type of a map, and the count 0
ClaimedEmpty(type) ==
    IF type = "map" THEN <<TType.STRING, TType.STRING, 0, 0, 0, 0>>
    ELSE <<TType.STRING, 0, 0, 0, 0>>

\* the bytes after the value of the first field starts
ValueBytes == SliceFrom(MessageBytes, ValueAt)

\* C15 (as claimed): a list, set or map that is null or empty and names no
\* element, key or value type is written with String as element type (as key
\* and value type for a map) and the count 0.
C15_EmptyDefault ==
    EmptyCase({"list", "set", "map"}) =>
        /\ pc # "failed"
        /\ pc = "encoded" =>
              ValueBytes = ClaimedEmpty(TheField.field_type) \o <<TType.STOP>>

\* C15 for sets and maps alone
C15_SetMapDefault ==
    EmptyCase({"set", "map"}) =>
        /\ pc # "failed"
        /\ pc = "encoded" =>
              ValueBytes = ClaimedEmpty(TheField.field_type) \o <<TType.STOP>>

\* the container types
ContainerNames == {"list", "set", "map"}

\* the input document holds one field: a list or a set whose declared element
\* type is a container, or a map whose declared value type is a container
NestedCase ==
    /\ doc.variant >= 1
    /\ doc.thrift.type \in Kinds
    /\ \/ TheField.field_type \in {"list", "set"}
          /\ TheField.element_type \in ContainerNames
       \/ TheField.field_type = "map" /\ TheField.value_type \in ContainerNames

\* C16 (as claimed): a list or set whose elements are lists, sets or maps, and
\* a map whose values are lists, sets or maps, is encoded without failure,
\* the elements written under the declared element type.
C16_NestedContainers ==
    NestedCase =>
        /\ pc # "failed"
        /\ (pc = "encoded" /\ TheField.field_type \in {"list", "set"}) =>
              MessageBytes[ValueAt + 1] = FIELD_TYPE_MAP[TheField.element_type]

\* the offsets of the two-byte windows of d that hold a protocol prefix
Windows(d) ==
    {i \in 0..(Len(d) - 2) : Slice(d, i, i + 2) \in {<<128, 1>>, <<130, 33>>}}

\* none of the markers of the list ms occurs in d
NoneOccurs(d, ms) == \A i \in 1..Len(ms) : find(d, ms[i]) = -1

\* the structural attempt was rejected and no configured marker occurs
FallbackCase ==
    /\ pc = "located" /\ ~structural(data).ok /\ NoneOccurs(data, sample.markers)

\* C17 (as claimed): when the structural attempt is rejected and no configured
\* marker occurs, every two-byte window of the buffer is examined, the last
\* two bytes included: if some window is 80 01 or 82 21 the split is at the
\* smallest such offset, and parse_data fails only when no window matches.
C17_Fallback ==
    FallbackCase =>
        IF Windows(data) = {} THEN ~located.ok
        ELSE /\ located.ok
             /\ \A i \in Windows(data) : located.pos <= i
             /\ located.pos \in Windows(data)
             /\ located.header_data = Slice(data, 0, located.pos)
             /\ located.thrift_frame = SliceFrom(data, located.pos)

\* C17 without the last window: the scan over the windows that start before
\* the last two bytes
C17_AllButLast ==
    FallbackCase =>
        IF Windows(data) \ {Len(data) - 2} = {} THEN ~located.ok
        ELSE /\ located.ok
             /\ \A i \in Windows(data) \ {Len(data) - 2} : located.pos <= i
             /\ located.pos \in Windows(data)

\* with the default marker list the scan never finds a window: the two
\* prefixes are markers themselves
C17_DefaultList ==
    (FallbackCase /\ sample.markers = markers) => ~located.ok

\* C18: every byte sequence encode produces is accepted by the structural
\* attempt (longer than 9 bytes, 0 < frameSize < length, version 0,
\* headerLength < frameSize), and parse_data splits it into the 9-byte prefix
\* plus the header block encode wrote, and the message bytes encode wrote.
C18_EncodeThenLocate ==
    pc = "roundtrip" =>
        /\ Accepted(wire.v) /\ wire.v[5] = 0
        /\ located.ok /\ located.via = "structural"
        /\ located.header_data = Slice(wire.v, 0, 9) \o encode_headers(doc.headers).v
        /\ located.thrift_frame = write_thrift_message(doc.thrift).v
        /\ located.header_data \o located.thrift_frame = wire.v

\* C18's case: a document with two headers, one of them not ASCII, was encoded
\* and the bytes were split at the end of its header block
C18_Witness ==
    /\ pc = "roundtrip" /\ located.ok /\ located.via = "structural"
    /\ Len(doc.headers) = 2
    /\ \E i \in 1..2 : Len(utf8_encode(doc.headers[i].key).v) > Len(doc.headers[i].key)
    /\ located.pos = 9 + Len(encode_headers(doc.headers).v)
    /\ located.pos > 9
    /\ Slice(located.thrift_frame, 0, 2) = <<128, 1>>

\* the message bytes handed to decode_thrift_message begin with 80 01 or 82 21
\* and hold the four bytes of a message header
BeginsWithPrefix(thrift_frame) ==
    /\ Len(thrift_frame) >= 4
    /\ Slice(thrift_frame, 0, 2) \in {<<128, 1>>, <<130, 33>>}

\* the kind encoded at offset 0: the fourth byte of the message header
KindAtStart(thrift_frame) == message_type_to_str(thrift_frame[4])

\* C19 (as claimed): whenever the message bytes begin with 80 01 or 82 21, the
\* message returned is parsed from offset 0 of those bytes: a marker further
\* inside the payload never moves the start, and the kind reported is the kind
\* encoded at offset 0.
C19_StartsAtZero ==
    (/\ pc = "done" /\ Faithful
     /\ thrift_obj.cls \in {"CustomResponseMessage", "ThriftMessage"}
     /\ BeginsWithPrefix(located.thrift_frame)) =>
        /\ thrift_obj.type = KindAtStart(located.thrift_frame)
        /\ thrift_obj.cls = "CustomResponseMessage" =>
              thrift_obj.length = Len(located.thrift_frame)

\* C19 for message bytes that begin with the header of a reply: the direct
\* detection reads them from offset 0
C19_ReplyAtZero ==
    (/\ pc = "done"
     /\ thrift_obj.cls = "CustomResponseMessage"
     /\ Slice(located.thrift_frame, 0, 4) = <<128, 1, 0, 2>>) =>
        /\ thrift_obj.type = "reply"
        /\ thrift_obj.length = Len(located.thrift_frame)

====
